---- MODULE Spec2Model ----
(***************************************************************************)
(* A model of xsatmgr (src/main.c): the saturation matrix generator, the   *)
(* S31.32 signed-magnitude encoder, the long-padded blob packer, the       *)
(* output resolver and the RandR property transmitter, together with the   *)
(* control flow of main() around them.                                     *)
(*                                                                         *)
(* Numbers.  TLC's integers are 32 bits wide, the program's words are 64   *)
(* and its doubles range up to 2^1024.  Natural numbers are therefore held *)
(* as little-endian sequences of 16-bit limbs of any length, and all       *)
(* arithmetic on them is carried out limb by limb with explicit carries.   *)
(* A 64-bit word is such a sequence of exactly 4 limbs, a 32-bit word one  *)
(* of 2.                                                                   *)
(*                                                                         *)
(* Doubles.  A double is an IEEE 754 binary64 value, held as               *)
(*     [kind, neg, m, e]                                                   *)
(* with kind "fin", "inf" or "nan"; a finite value is (-1)^neg * m * 2^e   *)
(* with m < 2^53 and e >= -1074, in the one form with m >= 2^52 or         *)
(* e = -1074 (zero is m = 0, e = 0).  Every operation of the program on    *)
(* doubles (strtod, 1.0 - value, the division by 3.0, s + value, the       *)
(* multiplication by 2^32) computes the exact result and rounds it to the  *)
(* nearest value of the format it is evaluated in, ties to even, as the    *)
(* hardware does.  The format of an intermediate result is the build's     *)
(* (FLT_EVAL_METHOD): double, or the x87 double-extended format, from      *)
(* which the value is rounded a second time when it is stored in a double. *)
(*                                                                         *)
(* Undefined behaviour.  The conversion of a double outside the range of   *)
(* int64_t (line 71 and line 77) and the read of ctm.matrix through a      *)
(* uint32_t pointer (line 227) are undefined in C.  Each is a choice of    *)
(* the build among the outcomes compilers give, taken when the step is     *)
(* made.  A word the program reads without having written it is held as    *)
(* limbs that are Indeterminate: it can be any word.                       *)
(***************************************************************************)
EXTENDS Integers, Sequences, FiniteSets, TLC

VARIABLES
    pc,           \* position of the process in main() and its callees
    platform,     \* [little: BOOLEAN, longBytes: 4 or 8]: byte order, sizeof(long)
    argv,         \* the command line after argv[0]: a sequence of options
    ctm_opt,      \* main's ctm_opt: NULL or a string (sequence of characters)
    output_name,  \* main's output_name: NULL or a string
    ctm_changed,  \* main's ctm_changed
    ctm_coeffs,   \* main's ctm_coeffs: <<>> while unset, else 9 doubles
    ctm,          \* set_ctm's struct _drm_color_ctm: <<>> or 9 64-bit words
    padded_ctm,   \* set_ctm's long padded_ctm[18]: <<>> or 18 long-sized slots
    dpy,          \* the display connection: "none", "null", "open", "closed"
    res,          \* the screen resources: "none", "null", "live", "freed"
    outputs,      \* the outputs the server lists: sequence of [id, name]
    output,       \* main's output: an RROutput id, 0 is None
    prop_atom,    \* set_output_blob's prop_atom: 0 is None
    prop_info,    \* set_output_blob's prop_info: "unset", "null", "info"
    server,       \* the X server: [written: <<>> or the request, error: BOOLEAN]
    ret,          \* main's ret
    blob_ret,     \* the value set_output_blob returned, -1 before it returns
    exit_status,  \* the process's exit status, -1 while it runs
    calls         \* the Xlib/RandR calls made so far, in order

vars == <<pc, platform, argv, ctm_opt, output_name, ctm_changed, ctm_coeffs,
          ctm, padded_ctm, dpy, res, outputs, output, prop_atom, prop_info,
          server, ret, blob_ret, exit_status, calls>>

----------------------------------------------------------------------------
(* Natural numbers: little-endian sequences of limbs with no zero limb at  *)
(* the high end; the empty sequence is 0.  Every limb of a result is       *)
(* written as an expression of the operands' limbs (a carry into limb i is *)
(* decided by the limbs below i), so that no operation recurses over the   *)
(* length of a number.                                                     *)

LimbBits == 2 * 8
Base == 2^LimbBits
HalfBase == 2^(LimbBits - 1)
WordLimbs == 64 \div LimbBits     \* limbs of a 64-bit word
HalfLimbs == 32 \div LimbBits     \* limbs of a 32-bit word

Max(a, b) == IF a >= b THEN a ELSE b
Min(a, b) == IF a <= b THEN a ELSE b

Limb(a, i) == IF i >= 1 /\ i <= Len(a) THEN a[i] ELSE 0

Zeros(n) == [i \in 1..n |-> 0]

StripHigh(a) ==
    LET nz == {i \in 1..Len(a) : a[i] # 0}
    IN  IF nz = {} THEN <<>>
        ELSE SubSeq(a, 1, CHOOSE i \in nz : \A k \in nz : k <= i)

\* the number k, 0 <= k < 2^31
FromInt(k) == StripHigh(<<k % Base, k \div Base>>)

\* a + b: limb i receives a carry when a limb below it overflows and every
\* limb between the two is full
AddL(a, b) ==
    LET s(i) == Limb(a, i) + Limb(b, i)
        carry(i) == \E j \in 1..(i - 1) :
                        s(j) >= Base /\ \A k \in (j + 1)..(i - 1) : s(k) = Base - 1
    IN  StripHigh([i \in 1..(Max(Len(a), Len(b)) + 1) |->
                      (s(i) + IF carry(i) THEN 1 ELSE 0) % Base])

\* a - b, for a >= b: limb i lends when a limb below it falls short and
\* every limb between the two is 0
SubL(a, b) ==
    LET d(i) == Limb(a, i) - Limb(b, i)
        borrow(i) == \E j \in 1..(i - 1) :
                         d(j) < 0 /\ \A k \in (j + 1)..(i - 1) : d(k) = 0
    IN  StripHigh([i \in 1..Len(a) |->
                      (d(i) - (IF borrow(i) THEN 1 ELSE 0) + Base) % Base])

LessL(a, b) ==
    IF Len(a) # Len(b) THEN Len(a) < Len(b)
    ELSE \E i \in 1..Len(a) : a[i] < b[i] /\ \A k \in (i + 1)..Len(a) : a[k] = b[k]
LeqL(a, b) == ~LessL(b, a)

\* a * m, for 0 <= m <= 2^15: the low halves of the products a[i] * m, plus
\* their high halves one limb up
MulSmall(a, m) ==
    AddL(StripHigh([i \in 1..Len(a) |-> (a[i] * m) % Base]),
         StripHigh([i \in 1..(Len(a) + 1) |-> (Limb(a, i - 1) * m) \div Base]))

\* (rin * Base^(hi-lo+1) + the number of the limbs lo..hi of a) % d, for
\* rin < d <= 2^15: the high half of the range first, then the low half
\* with what the high half left
RECURSIVE ModRange(_, _, _, _, _)
ModRange(a, d, lo, hi, rin) ==
    IF lo > hi THEN rin
    ELSE IF lo = hi THEN (rin * Base + a[lo]) % d
    ELSE LET mid == (lo + hi) \div 2
             upper == ModRange(a, d, mid + 1, hi, rin)
         IN  IF upper = 0 /\ \A i \in lo..mid : a[i] = 0 THEN 0
             ELSE ModRange(a, d, lo, mid, upper)

\* a \div d and a % d, for 1 <= d <= 2^15
DivSmall(a, d) ==
    StripHigh([i \in 1..Len(a) |->
                  (ModRange(a, d, i + 1, Len(a), 0) * Base + a[i]) \div d])
ModSmall(a, d) == ModRange(a, d, 1, Len(a), 0)

\* the number of bits of x < Base, and of a: the least n with a < 2^n
BitLenSmall(x) == CHOOSE n \in 0..LimbBits : x < 2^n /\ (n = 0 \/ 2^(n - 1) <= x)
BitLen(a) == IF Len(a) = 0 THEN 0
             ELSE LimbBits * (Len(a) - 1) + BitLenSmall(a[Len(a)])

\* a * 2^k and a \div 2^k
ShiftLeft(a, k) ==
    LET w == k \div LimbBits
        r == k % LimbBits
    IN  StripHigh([i \in 1..(Len(a) + w + 1) |->
                      ((Limb(a, i - w) * 2^r) % Base)
                      + (Limb(a, i - w - 1) \div 2^(LimbBits - r))])
ShiftRight(a, k) ==
    LET w == k \div LimbBits
        r == k % LimbBits
    IN  StripHigh([i \in 1..(Len(a) - w) |->
                      (a[i + w] \div 2^r)
                      + ((Limb(a, i + w + 1) % 2^r) * 2^(LimbBits - r))])

\* bit k of a (bit 0 is the lowest), and whether a % 2^k is not 0
TestBit(a, k) == (Limb(a, (k \div LimbBits) + 1) \div 2^(k % LimbBits)) % 2 = 1
LowBitsNonZero(a, k) ==
    \/ \E i \in 1..Min(k \div LimbBits, Len(a)) : a[i] # 0
    \/ Limb(a, (k \div LimbBits) + 1) % 2^(k % LimbBits) # 0
IsOdd(a) == Limb(a, 1) % 2 = 1

\* a * 10^k, in steps of 10^4 at most
RECURSIVE MulPow10(_, _)
MulPow10(a, k) ==
    IF k <= 4 THEN MulSmall(a, 10^k)
    ELSE LET half == MulPow10(a, k \div 2)
         IN  IF Len(half) = 0 THEN <<>> ELSE MulPow10(half, k - (k \div 2))

\* [q, sticky]: a \div 10^k, and whether a % 10^k is not 0 (or sticky was
\* set), in steps of 10^4 at most
RECURSIVE DivPow10(_, _, _)
DivPow10(a, k, sticky) ==
    IF k <= 4
    THEN [q |-> DivSmall(a, 10^k), sticky |-> sticky \/ ModSmall(a, 10^k) # 0]
    ELSE LET half == DivPow10(a, k \div 2, sticky)
         IN  IF Len(half.q) = 0 THEN half
             ELSE DivPow10(half.q, k - (k \div 2), half.sticky)

----------------------------------------------------------------------------
(* Doubles (IEEE 754 binary64)                                             *)

\* A format: the bits of the significand, the exponent of the last place of
\* a subnormal, and maxExp, with every finite value below 2^maxExp
Double == [bits |-> 52 + 1, minExp |-> 0 - (1022 + 52), maxExp |-> 2^10]
\* the x87 double-extended format
Extended == [bits |-> 63 + 1, minExp |-> 0 - (16382 + 63), maxExp |-> 2^14]

MantBits == Double.bits
MinExp == Double.minExp
MaxExp == Double.maxExp

Fin(neg, m, e) == [kind |-> "fin", neg |-> neg, m |-> m, e |-> e]
Zero(neg) == Fin(neg, <<>>, 0)
Inf(neg) == [kind |-> "inf", neg |-> neg, m |-> <<>>, e |-> 0]
NaN == [kind |-> "nan", neg |-> FALSE, m |-> <<>>, e |-> 0]

PackFloat(fmt, neg, m, x) ==
    IF Len(m) = 0 THEN Zero(neg)
    ELSE IF x + BitLen(m) > fmt.maxExp THEN Inf(neg)     \* overflow
    ELSE Fin(neg, m, x)

\* r is the rounded significand at the place t: a carry out of the
\* significand moves the place up by one
RoundCarried(fmt, neg, r, t) ==
    IF BitLen(r) > fmt.bits THEN PackFloat(fmt, neg, ShiftRight(r, 1), t + 1)
    ELSE PackFloat(fmt, neg, r, t)

\* q is n without its sh low bits, sh > 0: to nearest, a tie to even
RoundShifted(fmt, neg, n, sticky, t, sh, q) ==
    IF /\ TestBit(n, sh - 1)
       /\ (sticky \/ LowBitsNonZero(n, sh - 1) \/ IsOdd(q))
    THEN RoundCarried(fmt, neg, AddL(q, FromInt(1)), t)
    ELSE RoundCarried(fmt, neg, q, t)

\* t is the place of the last bit the format keeps
RoundAtPlace(fmt, neg, n, e, sticky, t) ==
    IF t <= e THEN PackFloat(fmt, neg, ShiftLeft(n, e - t), t)
    ELSE RoundShifted(fmt, neg, n, sticky, t, t - e, ShiftRight(n, t - e))

\* The value of the format nearest to (-1)^neg * (n + f) * 2^e, ties to
\* even, where f is a fraction in [0, 1) that is non-zero exactly when
\* sticky.  (A caller that sets sticky passes an n of more than fmt.bits
\* bits.)
RoundTo(fmt, neg, n, e, sticky) ==
    RoundAtPlace(fmt, neg, n, e, sticky,
                 Max(e + BitLen(n) - fmt.bits, fmt.minExp))

RoundToDouble(neg, n, e, sticky) == RoundTo(Double, neg, n, e, sticky)

\* a value of either format stored in an object of type double
StoreDouble(x) ==
    IF x.kind # "fin" THEN x ELSE RoundToDouble(x.neg, x.m, x.e, FALSE)

\* (double) k for an int k >= 0
DblOfInt(k) == RoundToDouble(FALSE, FromInt(k), 0, FALSE)

DblIsZero(d) == d.kind = "fin" /\ Len(d.m) = 0     \* d == 0: 0.0 and -0.0
DblLessZero(d) == d.kind # "nan" /\ d.neg /\ ~DblIsZero(d)   \* d < 0
DblNeg(d) == IF d.kind = "nan" THEN d ELSE [d EXCEPT !.neg = ~d.neg]   \* -d

\* hi + lo in the format, both finite and not zero, hi.e >= lo.e; x is
\* hi's significand at lo's place
FltAddAligned(fmt, hi, lo, x) ==
    IF hi.neg = lo.neg THEN RoundTo(fmt, hi.neg, AddL(x, lo.m), lo.e, FALSE)
    ELSE IF x = lo.m THEN Zero(FALSE)
    ELSE RoundTo(fmt,
                 IF LessL(lo.m, x) THEN hi.neg ELSE lo.neg,
                 IF LessL(lo.m, x) THEN SubL(x, lo.m) ELSE SubL(lo.m, x),
                 lo.e, FALSE)

\* The operands have significands of 64 bits at most.  With the last places
\* more than FarApart binary places apart, lo is below 2^(hi.e - 66), less
\* than a quarter of the last place the format keeps of hi, and the sum
\* rounds to hi.
FarApart == 2 * (63 + 1) + 2
FltAddOrdered(fmt, hi, lo) ==
    IF hi.e - lo.e > FarApart THEN RoundTo(fmt, hi.neg, hi.m, hi.e, FALSE)
    ELSE FltAddAligned(fmt, hi, lo, ShiftLeft(hi.m, hi.e - lo.e))

\* a + b evaluated in the format
FltAdd(fmt, a, b) ==
    IF a.kind = "nan" \/ b.kind = "nan" THEN NaN
    ELSE IF a.kind = "inf"
    THEN IF b.kind = "inf" /\ a.neg # b.neg THEN NaN ELSE a
    ELSE IF b.kind = "inf" THEN b
    ELSE IF Len(a.m) = 0 /\ Len(b.m) = 0 THEN Zero(a.neg /\ b.neg)
    ELSE IF Len(a.m) = 0 THEN RoundTo(fmt, b.neg, b.m, b.e, FALSE)
    ELSE IF Len(b.m) = 0 THEN RoundTo(fmt, a.neg, a.m, a.e, FALSE)
    ELSE FltAddOrdered(fmt, IF a.e >= b.e THEN a ELSE b,
                       IF a.e >= b.e THEN b ELSE a)

\* a - b evaluated in the format
FltSub(fmt, a, b) == FltAdd(fmt, a, DblNeg(b))

\* n is d's significand with DivPlaces more binary places: the quotient
\* keeps more bits than the format
DivPlaces == 5 * LimbBits
FltDiv3Shifted(fmt, d, n) ==
    RoundTo(fmt, d.neg, DivSmall(n, 3), d.e - DivPlaces, ModSmall(n, 3) # 0)

\* d / 3.0 evaluated in the format
FltDiv3(fmt, d) ==
    IF d.kind # "fin" THEN d ELSE FltDiv3Shifted(fmt, d, ShiftLeft(d.m, DivPlaces))

\* a scaling by 2^16 only
DblMul2p16(d) ==
    IF d.kind # "fin" THEN d ELSE RoundToDouble(d.neg, d.m, d.e + 16, FALSE)

\* d * ((int64_t) 1L << 32).  The product is exact in either format unless
\* it overflows the double format; then it is an infinity as a double and
\* 2^63 or more as a double-extended value, and the conversion to int64_t
\* that follows is invalid for both.
DblMul2p32(d) ==
    IF d.kind # "fin" THEN d ELSE RoundToDouble(d.neg, d.m, d.e + 32, FALSE)

----------------------------------------------------------------------------
(* 64-bit words: sequences of exactly WordLimbs limbs *)

Word(a) == a \o Zeros(WordLimbs - Len(a))
Low(a, n) == SubSeq(a, 1, n)
High(a, n) == SubSeq(a, Len(a) - n + 1, Len(a))

Bit63(w) == w[WordLimbs] >= HalfBase
SetBit63(w) == [w EXCEPT ![WordLimbs] = IF w[WordLimbs] >= HalfBase
                                        THEN w[WordLimbs]
                                        ELSE w[WordLimbs] + HalfBase]
Low63(w) == [w EXCEPT ![WordLimbs] = w[WordLimbs] % HalfBase]

Int64Min == Zeros(WordLimbs - 1) \o <<HalfBase>>
Int64Max == <<Base - 1, Base - 1, Base - 1, HalfBase - 1>>

\* What a build yields for (int64_t) d when d is a NaN, an infinity or a
\* value that int64_t cannot hold, which the C standard leaves undefined:
\* "indefinite" is cvttsd2si's integer indefinite (x86-64), "saturating"
\* is fcvtzs (AArch64).
CastBuilds == {"indefinite", "saturating"}

CastInvalid(d, build) ==
    IF build = "indefinite" THEN Int64Min
    ELSE IF d.kind = "nan" THEN Word(<<>>)
    ELSE IF d.neg THEN Int64Min
    ELSE Int64Max

\* 2^64 - w, the two's complement negation of a 64-bit word
TwosNegate(w) ==
    IF w = Word(<<>>) THEN w
    ELSE Word(AddL(StripHigh(<<Base - 1 - w[1], Base - 1 - w[2],
                               Base - 1 - w[3], Base - 1 - w[4]>>), FromInt(1)))

\* (int64_t) d: truncation toward zero when the truncated value is one of
\* int64_t, the build's choice when it is not
CastInt64(d, build) ==
    IF d.kind # "fin" THEN CastInvalid(d, build)
    ELSE IF d.e + BitLen(d.m) <= 63
    THEN LET q == Word(IF d.e >= 0 THEN ShiftLeft(d.m, d.e)
                       ELSE ShiftRight(d.m, 0 - d.e))
         IN  IF d.neg THEN TwosNegate(q) ELSE q
    ELSE IF d.neg /\ d.e + BitLen(d.m) = 64 /\ ~LowBitsNonZero(d.m, BitLen(d.m) - 1)
    THEN Int64Min
    ELSE CastInvalid(d, build)

\* an encoder that stores negative coefficients in two's complement
coeffs_to_ctm_entry_twos(c, build) ==
    IF DblLessZero(c)
    THEN TwosNegate(CastInt64(DblMul2p32(DblNeg(c)), build))
    ELSE CastInt64(DblMul2p32(c), build)

\* one iteration of the loop of coeffs_to_ctm
coeffs_to_ctm_entry(c, build) ==
    IF DblLessZero(c)
    THEN SetBit63(CastInt64(DblMul2p32(DblNeg(c)), build))
    ELSE CastInt64(DblMul2p32(c), build)

coeffs_to_ctm(coeffs, build) ==
    [i \in 1..9 |-> coeffs_to_ctm_entry(coeffs[i], build)]

----------------------------------------------------------------------------
(* Strings are sequences of one-character strings; NULL is no string. *)

NULL == <<"(null)">>
DefaultStr == <<"d", "e", "f", "a", "u", "l", "t">>

DigitChars == {"0", "1", "2", "3", "4", "5", "6", "7", "8", "9"}
HexChars == DigitChars \cup {"a", "b", "c", "d", "e", "f"}
\* the vertical tab (character 11) is written as the character itself
VT == ""
\* isspace() in the "C" locale
SpaceChars == {" ", "\t", "\n", VT, "\f", "\r"}

ToLowerChar(ch) ==
    CASE ch = "A" -> "a" [] ch = "B" -> "b" [] ch = "C" -> "c" [] ch = "D" -> "d"
      [] ch = "E" -> "e" [] ch = "F" -> "f" [] ch = "G" -> "g" [] ch = "H" -> "h"
      [] ch = "I" -> "i" [] ch = "J" -> "j" [] ch = "K" -> "k" [] ch = "L" -> "l"
      [] ch = "M" -> "m" [] ch = "N" -> "n" [] ch = "O" -> "o" [] ch = "P" -> "p"
      [] ch = "Q" -> "q" [] ch = "R" -> "r" [] ch = "S" -> "s" [] ch = "T" -> "t"
      [] ch = "U" -> "u" [] ch = "V" -> "v" [] ch = "W" -> "w" [] ch = "X" -> "x"
      [] ch = "Y" -> "y" [] ch = "Z" -> "z" [] OTHER -> ch

\* the value of a decimal or hexadecimal digit (in lower case)
DigitVal(ch) ==
    CASE ch = "0" -> 0 [] ch = "1" -> 1 [] ch = "2" -> 2 [] ch = "3" -> 3
      [] ch = "4" -> 4 [] ch = "5" -> 5 [] ch = "6" -> 6 [] ch = "7" -> 7
      [] ch = "8" -> 8 [] ch = "9" -> 9 [] ch = "a" -> 10 [] ch = "b" -> 11
      [] ch = "c" -> 12 [] ch = "d" -> 13 [] ch = "e" -> 14 [] ch = "f" -> 15

\* strcasecmp(a, b) == 0
StrEq_nocase(a, b) ==
    /\ Len(a) = Len(b)
    /\ \A i \in 1..Len(a) : ToLowerChar(a[i]) = ToLowerChar(b[i])

\* strcmp(a, b) == 0
StrEq(a, b) == a = b

\* the character of s at i in lower case, "" past the end
CharAt(s, i) == IF i >= 1 /\ i <= Len(s) THEN ToLowerChar(s[i]) ELSE ""

\* the characters of word stand in s from i on, in either case
Matches(s, i, word) == \A k \in 1..Len(word) : CharAt(s, i + k - 1) = word[k]

\* the end of the run of characters of set that starts at i in s
RunEnd(s, i, set) ==
    CHOOSE j \in i..Max(i, Len(s) + 1) :
        CharAt(s, j) \notin set /\ \A k \in i..(j - 1) : CharAt(s, k) \in set

\* a * radix^k, radix 10 or 16
MulPow(a, radix, k) == IF radix = 16 THEN ShiftLeft(a, 4 * k) ELSE MulPow10(a, k)

\* the number written by the digits s[i..j-1] in the radix
\* the number written by k digits whose value is lo, after the digits whose
\* value is hi
DigitsJoin(hi, lo, radix, k) ==
    IF Len(hi) = 0 THEN lo
    ELSE IF Len(lo) = 0 THEN MulPow(hi, radix, k)
    ELSE AddL(MulPow(hi, radix, k), lo)

RECURSIVE DigitsValue(_, _, _, _)
DigitsValue(s, i, j, radix) ==
    IF j <= i THEN <<>>
    ELSE IF j = i + 1 THEN FromInt(DigitVal(CharAt(s, i)))
    ELSE DigitsJoin(DigitsValue(s, i, (i + j) \div 2, radix),
                    DigitsValue(s, (i + j) \div 2, j, radix),
                    radix, j - (i + j) \div 2)

\* the int written by the limbs v, v < 2^31
ToInt(v) == Limb(v, 1) + Limb(v, 2) * Base

\* No exponent part.
NoExponent == [neg |-> FALSE, v |-> <<>>]

\* [neg, v]: the exponent (-1)^neg * v whose decimal digits are
\* s[x0..x1-1], of any length; 0 without a digit, when the letter and the
\* sign are no part of the number
ExponentRun(s, neg, x0, x1) ==
    IF x1 <= x0 THEN NoExponent
    ELSE [neg |-> neg, v |-> DigitsValue(s, x0, x1, 10)]

ExponentDigits(s, neg, x0) == ExponentRun(s, neg, x0, RunEnd(s, x0, DigitChars))

\* the exponent part that starts at i with the letter mark: the letter, an
\* optional sign and at least one decimal digit
ExponentAt(s, i, mark) ==
    IF CharAt(s, i) # mark THEN NoExponent
    ELSE ExponentDigits(s, CharAt(s, i + 1) = "-",
                        IF CharAt(s, i + 1) \in {"+", "-"} THEN i + 2 ELSE i + 1)

\* The exponent x less sub (the places of the fraction digits) as an int,
\* for lo <= 0 - sub and 0 <= hi: lo - 1 stands for every exponent below lo
\* and hi + 1 for every exponent above hi.
ClipExp(x, sub, lo, hi) ==
    IF x.neg
    THEN IF LessL(FromInt(0 - lo - sub), x.v) THEN lo - 1
         ELSE 0 - ToInt(x.v) - sub
    ELSE IF LessL(FromInt(hi + sub), x.v) THEN hi + 1
         ELSE ToInt(x.v) - sub

\* n * 10^x with n >= 1 is above the largest double for x > DecMaxExp, and
\* with n < 10^digits it is below half the smallest for
\* x + digits < DecMinExp
DecMaxExp == 310
DecMinExp == 0 - 330

\* r is [q, sticky], n * 2^(16 * limbs) divided by 10^k
DecimalQuotient(neg, r, limbs) ==
    RoundToDouble(neg, r.q, 0 - limbs * LimbBits, r.sticky)

\* n / 10^k; 10^k < 2^(4k), so with limbs limbs below n the quotient has 80
\* bits or more
DecimalDivided(neg, n, k, limbs) ==
    DecimalQuotient(neg, DivPow10(Zeros(limbs) \o n, k, FALSE), limbs)

\* the double nearest to (-1)^neg * n * 10^x, n written with at most digits
\* decimal digits
DecimalToDouble(neg, n, x, digits) ==
    IF Len(n) = 0 THEN Zero(neg)
    ELSE IF x > DecMaxExp THEN Inf(neg)
    ELSE IF x + digits < DecMinExp THEN Zero(neg)
    ELSE IF x >= 0 THEN RoundToDouble(neg, MulPow10(n, x), 0, FALSE)
    ELSE DecimalDivided(neg, n, 0 - x, ((0 - x) \div 4) + 5)

\* the double nearest to (-1)^neg * n * 2^x, n written with at most digits
\* hexadecimal digits
BinaryToDouble(neg, n, x, digits) ==
    IF Len(n) = 0 THEN Zero(neg)
    ELSE IF x > MaxExp THEN Inf(neg)
    ELSE IF x + 4 * digits < MinExp - 1 THEN Zero(neg)
    ELSE RoundToDouble(neg, n, x, FALSE)

\* strtod(s, NULL) in the "C" locale: white space is skipped, then the
\* longest prefix that is a subject sequence is converted: an optional sign
\* and "inf", "nan", a hexadecimal constant 0x h [. h] [p exponent] or a
\* decimal constant d [. d] [e exponent].  0.0 is returned when there is no
\* such prefix.
strtod_convert(s, neg, i0, i1, f0, f1, radix, x) ==
    IF radix = 16
    THEN BinaryToDouble(neg,
                        AddL(MulPow(DigitsValue(s, i0, i1, 16), 16, f1 - f0),
                             DigitsValue(s, f0, f1, 16)),
                        ClipExp(x, 4 * (f1 - f0),
                                MinExp - 1 - 4 * ((i1 - i0) + (f1 - f0)), MaxExp),
                        (i1 - i0) + (f1 - f0))
    ELSE DecimalToDouble(neg,
                         AddL(MulPow(DigitsValue(s, i0, i1, 10), 10, f1 - f0),
                              DigitsValue(s, f0, f1, 10)),
                         ClipExp(x, f1 - f0,
                                 DecMinExp - ((i1 - i0) + (f1 - f0)), DecMaxExp),
                         (i1 - i0) + (f1 - f0))

\* the digits before the point are s[i0..i1-1], those after it s[f0..f1-1]
strtod_fraction(s, neg, i0, i1, f0, f1, radix, mark) ==
    strtod_convert(s, neg, i0, i1, f0, f1, radix,
                   ExponentAt(s, IF CharAt(s, i1) = "." THEN f1 ELSE i1, mark))

strtod_digits(s, neg, i0, i1, set, radix, mark) ==
    strtod_fraction(s, neg, i0, i1, i1 + 1,
                    IF CharAt(s, i1) = "." THEN RunEnd(s, i1 + 1, set) ELSE i1 + 1,
                    radix, mark)

\* a constant of the radix starts at i0
strtod_constant(s, neg, i0, set, radix, mark) ==
    strtod_digits(s, neg, i0, RunEnd(s, i0, set), set, radix, mark)

\* s[i..] starts with at least one digit of the set, before or after a point
HasDigits(s, i, set) ==
    \/ CharAt(s, i) \in set
    \/ CharAt(s, i) = "." /\ CharAt(s, i + 1) \in set

\* the subject sequence without its sign starts at i0
strtod_subject(s, neg, i0) ==
    IF Matches(s, i0, <<"i", "n", "f">>) THEN Inf(neg)
    ELSE IF Matches(s, i0, <<"n", "a", "n">>) THEN NaN
    ELSE IF Matches(s, i0, <<"0", "x">>) /\ HasDigits(s, i0 + 2, HexChars)
    THEN strtod_constant(s, neg, i0 + 2, HexChars, 16, "p")
    ELSE IF HasDigits(s, i0, DigitChars)
    THEN strtod_constant(s, neg, i0, DigitChars, 10, "e")
    ELSE Zero(FALSE)

\* the white space ends at b
strtod_sign(s, b) ==
    strtod_subject(s, CharAt(s, b) = "-",
                   IF CharAt(s, b) \in {"+", "-"} THEN b + 1 ELSE b)

strtod(s) == strtod_sign(s, RunEnd(s, 1, SpaceChars))

----------------------------------------------------------------------------
(* parse_user_ctm *)

\* d on the diagonal, s elsewhere
CoeffMatrix(d, s) == <<d, s, s, s, d, s, s, s, d>>

IdentityCoeffs == CoeffMatrix(DblOfInt(1), DblOfInt(0))

\* How the build evaluates the expressions of lines 273-277
\* (FLT_EVAL_METHOD): every operation rounded to double (SSE2, AArch64); or
\* in the x87 double-extended format with s rounded to double when it is
\* stored (gcc -mfpmath=387 -O0, -ffloat-store, standard excess precision);
\* or in that format with s kept in a register, unrounded, for s + value
\* (gcc -mfpmath=387 -O1 and above).
FloatEvals == {"double", "extended", "extended_kept"}
EvalFormat(eval) == IF eval = "double" THEN Double ELSE Extended

\* lines 274-278: s on the non-diagonal entries, s + value on the diagonal,
\* each stored in a double; x is (1.0 - value) / 3.0 as evaluated
SaturationMatrix(x, value, eval) ==
    CoeffMatrix(StoreDouble(FltAdd(EvalFormat(eval),
                                   IF eval = "extended_kept" THEN x
                                   ELSE StoreDouble(x),
                                   value)),
                StoreDouble(x))

\* lines 273-278: s = (1.0 - value) / 3.0
SaturationCoeffs(value, eval) ==
    SaturationMatrix(FltDiv3(EvalFormat(eval),
                             FltSub(EvalFormat(eval), DblOfInt(1), value)),
                     value, eval)

\* lines 267-278: value is what strtod returned
parse_user_ctm_value(value, eval) ==
    IF DblIsZero(value) THEN [changed |-> FALSE, coeffs |-> <<>>]
    ELSE [changed |-> TRUE, coeffs |-> SaturationCoeffs(value, eval)]

\* [changed, coeffs]: the return value and what is left in coeffs, which is
\* not written (<<>>) when 0 is returned
parse_user_ctm(opt, eval) ==
    IF opt = NULL THEN [changed |-> FALSE, coeffs |-> <<>>]
    ELSE IF StrEq(opt, DefaultStr)
    THEN [changed |-> TRUE, coeffs |-> IdentityCoeffs]
    ELSE parse_user_ctm_value(strtod(opt), eval)

----------------------------------------------------------------------------
(* set_ctm: the padded copy *)

FORMAT_32_BIT == 32
Success == 0
BadAtom == 5
BadName == 15

\* sizeof(struct _drm_color_ctm): int64_t matrix[9]
blob_size == 9 * 8

\* What the 18 loads of line 227 can see.  ctm.matrix was stored as int64_t
\* and is read as uint32_t, which the aliasing rule of C leaves undefined:
\* a build may order the loads after the stores of coeffs_to_ctm (gcc -O0,
\* -O1, -O3) or before them, or drop the stores (gcc -O2, -Os), and then
\* the loads see what the stack held: 18 32-bit words the program never
\* wrote, which change with the build and from run to run.
LoadOutcomes == {"ordered", "stale"}

\* A limb the program did not write.  It stands for every limb 0..Base - 1
\* and is equal to none.
Indeterminate == 0 - 1
\* a 32-bit word of the stack that the program did not write
StackWord == [k \in 1..HalfLimbs |-> Indeterminate]

\* ((uint32_t*)ctm.matrix)[i], i counted from 0.  When the loads are ordered
\* after the stores: in memory each 64-bit entry lies in the platform's
\* byte order, so its low half comes first on a little-endian platform and
\* second on a big-endian one.
Uint32At(matrix, i, little, seen) ==
    LET w == matrix[(i \div 2) + 1]
        lowHalf == (i % 2 = 0) = little
    IN  IF seen = "stale" THEN StackWord
        ELSE IF lowHalf THEN Low(w, HalfLimbs) ELSE High(w, HalfLimbs)

\* padded_ctm[i] = ((uint32_t*)ctm.matrix)[i]: the 32-bit value widened to a
\* long of longBytes bytes
PadToLong(w32, longBytes) == w32 \o Zeros((longBytes * 8) \div LimbBits - HalfLimbs)

pad_ctm(matrix, plat, seen) ==
    [j \in 1..18 |-> PadToLong(Uint32At(matrix, j - 1, plat.little, seen),
                               plat.longBytes)]

\* an element count that is the size in bytes
blob_length_bytes(blob_bytes, format) == blob_bytes

\* the element count set_output_blob hands to XRRChangeOutputProperty
blob_length(blob_bytes, format) == blob_bytes \div (format \div 8)

----------------------------------------------------------------------------
(* find_output_by_name *)

\* the index of the first output of list whose name compares equal, 0 if none
RECURSIVE FirstMatch(_, _, _)
FirstMatch(list, name, i) ==
    IF i > Len(list) THEN 0
    ELSE IF StrEq(name, list[i].name) THEN i
    ELSE FirstMatch(list, name, i + 1)

find_output_by_name(list, name) ==
    LET i == FirstMatch(list, name, 1)
    IN  IF i = 0 THEN 0 ELSE list[i].id

\* the calls of the loop: one XRRGetOutputInfo and one XRRFreeOutputInfo per
\* output visited
RECURSIVE InfoCalls(_)
InfoCalls(n) ==
    IF n = 0 THEN <<>>
    ELSE InfoCalls(n - 1) \o <<"XRRGetOutputInfo", "XRRFreeOutputInfo">>

find_output_calls(list, name) ==
    LET i == FirstMatch(list, name, 1)
    IN  InfoCalls(IF i = 0 THEN Len(list) ELSE i)

----------------------------------------------------------------------------
(* main: the getopt loop *)

Opt(o, a) == [opt |-> o, arg |-> a]

\* the loop over the options args[i..]: exit is -1 when the loop runs to its
\* end, else the value main returns from inside it
RECURSIVE getopt_loop(_, _, _, _)
getopt_loop(args, i, copt, oname) ==
    IF i > Len(args)
    THEN [exit |-> -1, ctm_opt |-> copt, output_name |-> oname]
    ELSE LET o == args[i]
         IN  IF o.opt = "v" THEN [exit |-> 0, ctm_opt |-> copt, output_name |-> oname]
             ELSE IF o.opt = "c" THEN getopt_loop(args, i + 1, o.arg, oname)
             ELSE IF o.opt = "o" THEN getopt_loop(args, i + 1, copt, o.arg)
             ELSE IF o.opt = "h" THEN [exit |-> 0, ctm_opt |-> copt, output_name |-> oname]
             ELSE [exit |-> 1, ctm_opt |-> copt, output_name |-> oname]

----------------------------------------------------------------------------
(* The inputs of a run: the command line, the platform, the server's       *)
(* answers.                                                                *)

MaxArgs == 2        \* options on the command line
MaxOutputs == 2     \* outputs the server lists

OutputNames == { <<"D", "P">>, <<"d", "p">>, <<"H", "D", "M", "I">> }

\* saturation arguments: the identity request, the numeral 0, a negative
\* whole number, no number at all, a fraction no double holds exactly, white
\* space and an exponent, a hexadecimal constant, an infinity and a NaN
CtmArgs == { DefaultStr, <<"0">>, <<"-", "1">>, <<"a", "b", "c">>,
             <<"-", "0", ".", "3", "7">>, <<" ", VT, "1", "e", "2">>,
             <<"0", "x", "1", "0">>, <<"i", "n", "f">>, <<"n", "a", "n">> }

Options == {Opt(o, NULL) : o \in {"v", "h", "?"}}
           \cup {Opt("o", n) : n \in OutputNames}
           \cup {Opt("c", a) : a \in CtmArgs}

CommandLines == UNION {[1..k -> Options] : k \in 0..MaxArgs}

Platforms == [little : BOOLEAN, longBytes : {4, 8}]

\* the lists of outputs a server may report: distinct names, ids from 1
OutputLists ==
    LET seqs == UNION {[1..k -> OutputNames] : k \in 0..MaxOutputs}
        distinct(q) == \A i, j \in 1..Len(q) : i # j => q[i] # q[j]
    IN  {[i \in 1..Len(q) |-> [id |-> i, name |-> q[i]]] : q \in {x \in seqs : distinct(x)}}

NoServer == [written |-> <<>>, error |-> FALSE]

Unset ==
    /\ ctm_opt = NULL /\ output_name = NULL /\ ctm_changed = FALSE
    /\ ctm_coeffs = <<>> /\ ctm = <<>> /\ padded_ctm = <<>>
    /\ dpy = "none" /\ res = "none" /\ outputs = <<>> /\ output = 0
    /\ prop_atom = 0 /\ prop_info = "unset" /\ server = NoServer
    /\ ret = 0 /\ blob_ret = -1 /\ exit_status = -1 /\ calls = <<>>

Init ==
    /\ pc = "main"
    /\ platform \in Platforms
    /\ argv \in CommandLines
    /\ Unset

----------------------------------------------------------------------------
(* main *)

Exit(status) == pc' = "exited" /\ exit_status' = status

\* lines 360-383: the getopt loop and the check that an output was named
main_getopt ==
    /\ pc = "main"
    /\ LET r == getopt_loop(argv, 1, NULL, NULL)
       IN  /\ ctm_opt' = r.ctm_opt
           /\ output_name' = r.output_name
           /\ IF r.exit # -1 THEN Exit(r.exit)
              ELSE IF r.output_name = NULL THEN Exit(1)
              ELSE pc' = "parse" /\ UNCHANGED exit_status
    /\ UNCHANGED <<platform, argv, ctm_changed, ctm_coeffs, ctm, padded_ctm, dpy,
                   res, outputs, output, prop_atom, prop_info, server, ret,
                   blob_ret, calls>>

\* lines 386-393
main_parse_user_ctm ==
    /\ pc = "parse"
    /\ \E r \in {parse_user_ctm(ctm_opt, eval) : eval \in FloatEvals} :
           /\ ctm_changed' = r.changed
           /\ ctm_coeffs' = r.coeffs
           /\ IF ~r.changed THEN Exit(1)
              ELSE pc' = "open" /\ UNCHANGED exit_status
    /\ UNCHANGED <<platform, argv, ctm_opt, output_name, ctm, padded_ctm, dpy,
                   res, outputs, output, prop_atom, prop_info, server, ret,
                   blob_ret, calls>>

\* lines 397-402: XOpenDisplay succeeds or returns NULL
main_XOpenDisplay ==
    /\ pc = "open"
    /\ calls' = Append(calls, "XOpenDisplay")
    /\ \E ok \in BOOLEAN :
         IF ok THEN dpy' = "open" /\ pc' = "resources" /\ UNCHANGED exit_status
         ELSE dpy' = "null" /\ Exit(1)
    /\ UNCHANGED <<platform, argv, ctm_opt, output_name, ctm_changed, ctm_coeffs,
                   ctm, padded_ctm, res, outputs, output, prop_atom, prop_info,
                   server, ret, blob_ret>>

\* lines 404-405: the server's current list of outputs
main_XRRGetScreenResourcesCurrent ==
    /\ pc = "resources"
    /\ calls' = Append(calls, "XRRGetScreenResourcesCurrent")
    /\ \/ \E list \in OutputLists : outputs' = list /\ res' = "live"
       \/ outputs' = <<>> /\ res' = "null"     \* no RandR resources: NULL
    /\ pc' = "find"
    /\ UNCHANGED <<platform, argv, ctm_opt, output_name, ctm_changed, ctm_coeffs,
                   ctm, padded_ctm, dpy, output, prop_atom, prop_info, server,
                   ret, blob_ret, exit_status>>

\* line 97 with res == NULL: res->noutput reads through a null pointer and
\* the process is killed by SIGSEGV
main_find_output_null_res ==
    /\ pc = "find"
    /\ res = "null"
    /\ pc' = "crashed"
    /\ exit_status' = 128 + 11
    /\ UNCHANGED <<platform, argv, ctm_opt, output_name, ctm_changed, ctm_coeffs,
                   ctm, padded_ctm, dpy, res, outputs, output, prop_atom,
                   prop_info, server, ret, blob_ret, calls>>

\* a main that returns 1 at once when the output is not found
main_find_output_by_name_return ==
    /\ pc = "find"
    /\ res = "live"
    /\ calls' = calls \o find_output_calls(outputs, output_name)
    /\ LET out == find_output_by_name(outputs, output_name)
       IN  /\ output' = out
           /\ IF out = 0 THEN ret' = 1 /\ Exit(1)
              ELSE pc' = "set_ctm" /\ UNCHANGED <<ret, exit_status>>
    /\ UNCHANGED <<platform, argv, ctm_opt, output_name, ctm_changed, ctm_coeffs,
                   ctm, padded_ctm, dpy, res, outputs, prop_atom, prop_info,
                   server, blob_ret>>

\* lines 410-415, with the loop of find_output_by_name
main_find_output_by_name ==
    /\ pc = "find"
    /\ res = "live"
    /\ calls' = calls \o find_output_calls(outputs, output_name)
    /\ LET out == find_output_by_name(outputs, output_name)
       IN  /\ output' = out
           /\ IF out = 0 THEN ret' = 1 /\ pc' = "done"
              ELSE pc' = "set_ctm" /\ UNCHANGED ret
    /\ UNCHANGED <<platform, argv, ctm_opt, output_name, ctm_changed, ctm_coeffs,
                   ctm, padded_ctm, dpy, res, outputs, prop_atom, prop_info,
                   server, blob_ret, exit_status>>

\* line 420 and line 202: set_ctm is entered and the coefficients encoded
set_ctm_coeffs_to_ctm ==
    /\ pc = "set_ctm"
    /\ \E build \in CastBuilds : ctm' = coeffs_to_ctm(ctm_coeffs, build)
    /\ pc' = "pad"
    /\ UNCHANGED <<platform, argv, ctm_opt, output_name, ctm_changed, ctm_coeffs,
                   padded_ctm, dpy, res, outputs, output, prop_atom, prop_info,
                   server, ret, blob_ret, exit_status, calls>>

\* lines 225-227
set_ctm_pad ==
    /\ pc = "pad"
    /\ \E seen \in LoadOutcomes : padded_ctm' = pad_ctm(ctm, platform, seen)
    /\ pc' = "intern_atom"
    /\ UNCHANGED <<platform, argv, ctm_opt, output_name, ctm_changed, ctm_coeffs,
                   ctm, dpy, res, outputs, output, prop_atom, prop_info, server,
                   ret, blob_ret, exit_status, calls>>

\* a main that drops the value set_ctm returns
ReturnFromBlob_dropped(r) ==
    /\ blob_ret' = r
    /\ ret' = ret
    /\ pc' = "done"

\* what follows the return of set_output_blob with value r: lines 232-234 of
\* set_ctm and lines 420-425 of main
ReturnFromBlob(r) ==
    /\ blob_ret' = r
    /\ ret' = r
    /\ pc' = "done"

\* a set_output_blob that does not test the atom
set_output_blob_XInternAtom_unchecked ==
    /\ pc = "intern_atom"
    /\ calls' = Append(calls, "XInternAtom")
    /\ \E atom \in {0, 1} : prop_atom' = atom
    /\ pc' = "query"
    /\ UNCHANGED <<platform, argv, ctm_opt, output_name, ctm_changed, ctm_coeffs,
                   ctm, padded_ctm, dpy, res, outputs, output, prop_info, server,
                   ret, blob_ret, exit_status>>

\* lines 141-145: XInternAtom(dpy, "CTM", only_if_exists) yields an atom or None
set_output_blob_XInternAtom ==
    /\ pc = "intern_atom"
    /\ calls' = Append(calls, "XInternAtom")
    /\ \E atom \in {0, 1} :
         /\ prop_atom' = atom
         /\ IF atom = 0 THEN ReturnFromBlob(BadAtom)
            ELSE pc' = "query" /\ UNCHANGED <<ret, blob_ret>>
    /\ UNCHANGED <<platform, argv, ctm_opt, output_name, ctm_changed, ctm_coeffs,
                   ctm, padded_ctm, dpy, res, outputs, output, prop_info, server,
                   exit_status>>

\* lines 148-152: the output has the property or XRRQueryOutputProperty
\* returns NULL
set_output_blob_XRRQueryOutputProperty ==
    /\ pc = "query"
    /\ calls' = Append(calls, "XRRQueryOutputProperty")
    /\ \E present \in BOOLEAN :
         IF present THEN /\ prop_info' = "info"
                         /\ pc' = "change"
                         /\ UNCHANGED <<ret, blob_ret>>
         ELSE prop_info' = "null" /\ ReturnFromBlob(BadName)
    /\ UNCHANGED <<platform, argv, ctm_opt, output_name, ctm_changed, ctm_coeffs,
                   ctm, padded_ctm, dpy, res, outputs, output, prop_atom, server,
                   exit_status>>

\* the request XRRChangeOutputProperty queues
ChangeRequest(out, atom, data, blob_bytes, format) ==
    [output |-> out, property |-> atom, type |-> "XA_INTEGER", format |-> format,
     mode |-> "PropModeReplace", data |-> data,
     nelements |-> blob_length(blob_bytes, format)]

\* lines 166-168: the request is queued (the call returns nothing); the
\* server will accept it or answer with an error
set_output_blob_XRRChangeOutputProperty ==
    /\ pc = "change"
    /\ calls' = Append(calls, "XRRChangeOutputProperty")
    /\ \E err \in BOOLEAN :
         server' = [written |-> ChangeRequest(output, prop_atom, padded_ctm,
                                              blob_size, FORMAT_32_BIT),
                    error |-> err]
    /\ pc' = "sync"
    /\ UNCHANGED <<platform, argv, ctm_opt, output_name, ctm_changed, ctm_coeffs,
                   ctm, padded_ctm, dpy, res, outputs, output, prop_atom,
                   prop_info, ret, blob_ret, exit_status>>

\* a set_output_blob that returns Success without calling XSync
set_output_blob_XSync_skipped ==
    /\ pc = "sync"
    /\ ReturnFromBlob(Success)
    /\ UNCHANGED <<platform, argv, ctm_opt, output_name, ctm_changed, ctm_coeffs,
                   ctm, padded_ctm, dpy, res, outputs, output, prop_atom,
                   prop_info, server, exit_status, calls>>

\* lines 170-172: XSync waits for the server.  The program installs no error
\* handler, so an error answer reaches Xlib's default handler, which prints
\* it and calls exit(1) inside XSync; otherwise Success is returned.
set_output_blob_XSync ==
    /\ pc = "sync"
    /\ calls' = Append(calls, "XSync")
    /\ IF server.error THEN Exit(1) /\ UNCHANGED <<ret, blob_ret>>
       ELSE ReturnFromBlob(Success) /\ UNCHANGED exit_status
    /\ UNCHANGED <<platform, argv, ctm_opt, output_name, ctm_changed, ctm_coeffs,
                   ctm, padded_ctm, dpy, res, outputs, output, prop_atom,
                   prop_info, server>>

\* line 427
main_XRRFreeScreenResources ==
    /\ pc = "done"
    /\ calls' = Append(calls, "XRRFreeScreenResources")
    /\ res' = "freed"
    /\ pc' = "close"
    /\ UNCHANGED <<platform, argv, ctm_opt, output_name, ctm_changed, ctm_coeffs,
                   ctm, padded_ctm, dpy, outputs, output, prop_atom, prop_info,
                   server, ret, blob_ret, exit_status>>

\* line 428
main_XCloseDisplay ==
    /\ pc = "close"
    /\ calls' = Append(calls, "XCloseDisplay")
    /\ dpy' = "closed"
    /\ pc' = "return"
    /\ UNCHANGED <<platform, argv, ctm_opt, output_name, ctm_changed, ctm_coeffs,
                   ctm, padded_ctm, res, outputs, output, prop_atom, prop_info,
                   server, ret, blob_ret, exit_status>>

\* line 430: main returns ret, the process's exit status
main_return ==
    /\ pc = "return"
    /\ Exit(ret)
    /\ UNCHANGED <<platform, argv, ctm_opt, output_name, ctm_changed, ctm_coeffs,
                   ctm, padded_ctm, dpy, res, outputs, output, prop_atom,
                   prop_info, server, ret, blob_ret, calls>>

Next ==
    \/ main_getopt
    \/ main_parse_user_ctm
    \/ main_XOpenDisplay
    \/ main_XRRGetScreenResourcesCurrent
    \/ main_find_output_null_res
    \/ main_find_output_by_name
    \/ set_ctm_coeffs_to_ctm
    \/ set_ctm_pad
    \/ set_output_blob_XInternAtom
    \/ set_output_blob_XRRQueryOutputProperty
    \/ set_output_blob_XRRChangeOutputProperty
    \/ set_output_blob_XSync
    \/ main_XRRFreeScreenResources
    \/ main_XCloseDisplay
    \/ main_return

Spec == Init /\ [][Next]_vars

----------------------------------------------------------------------------
(* set_ctm on arbitrary coefficients: the encoder and the packer are pure, *)
(* so they are also run from every array of a bounded set of doubles, on   *)
(* every platform, with the steps set_ctm takes before it transmits.       *)

\* significands of 53 bits: 2^52, alternating bits, 2^53 - 1
TestSignificands ==
    { <<0, 0, 0, 16>>,
      <<21845, 21845, 21845, 21>>,
      <<Base - 1, Base - 1, Base - 1, 31>> }

\* exponents of the last place, for which |c| * 2^32 lies in [1/2, 1),
\* [1, 2), [2^31, 2^32), [2^32, 2^33), [2^62, 2^63) and [2^63, 2^64)
TestExponents == {0 - 85, 0 - 84, 0 - 53, 0 - 52, 0 - 22, 0 - 21}

TestDoubles ==
    { Fin(n, m, e) : n \in BOOLEAN, m \in TestSignificands, e \in TestExponents }
    \cup {Zero(FALSE), Zero(TRUE), Inf(FALSE), Inf(TRUE), NaN}

\* arrays of the shape parse_user_ctm builds: one value on the diagonal,
\* one off it
TestCoeffs == { <<d, s, s, s, d, s, s, s, d>> : d \in TestDoubles, s \in TestDoubles }

InitCore ==
    /\ pc = "set_ctm"
    /\ platform \in Platforms
    /\ ctm_coeffs \in TestCoeffs
    /\ argv = <<>> /\ ctm_opt = NULL /\ output_name = NULL /\ ctm_changed = TRUE
    /\ ctm = <<>> /\ padded_ctm = <<>>
    /\ dpy = "open" /\ res = "live" /\ outputs = <<>> /\ output = 1
    /\ prop_atom = 0 /\ prop_info = "unset" /\ server = NoServer
    /\ ret = 0 /\ blob_ret = -1 /\ exit_status = -1 /\ calls = <<>>

NextCore ==
    \/ set_ctm_coeffs_to_ctm
    \/ set_ctm_pad

SpecCore == InitCore /\ [][NextCore]_vars

----------------------------------------------------------------------------
(* Reference definitions of the properties *)

Encoded == ctm # <<>>
Packed == padded_ctm # <<>>

\* floor(|c| * 2^32) and the nearest integer to |c| * 2^32 (halves away from
\* zero), for a finite coefficient c
ScaledFloor(c) ==
    IF c.e + 32 >= 0 THEN ShiftLeft(c.m, c.e + 32) ELSE ShiftRight(c.m, 0 - (c.e + 32))
ScaledRound(c) ==
    IF c.e + 32 < 0 /\ TestBit(c.m, 0 - (c.e + 32) - 1)
    THEN AddL(ScaledFloor(c), FromInt(1))
    ELSE ScaledFloor(c)

\* |c| * 2^32 is not a whole number
HasFraction(c) == c.e + 32 < 0 /\ LowBitsNonZero(c.m, 0 - (c.e + 32))

\* |c| * 2^32 < 2^63
ScaledFits(c) == c.kind = "fin" /\ BitLen(ScaledFloor(c)) <= 63

\* the low 63 bits of a word, as a number
Magnitude(w) == StripHigh(Low63(w))

\* | c - decode(w) | <= 2^-32, decode(w) being -Magnitude(w)/2^32 when bit
\* 63 of w is set and Magnitude(w)/2^32 otherwise; c finite, and both sides
\* compared in units of 2^-32 * 2^min(c.e + 32, 0)
DecodeWithinUnit(c, w) ==
    LET up == Max(c.e + 32, 0)
        down == Max(0 - (c.e + 32), 0)
        cs == ShiftLeft(c.m, up)
        md == ShiftLeft(Magnitude(w), down)
        unit == ShiftLeft(FromInt(1), down)
        sameSign == Bit63(w) = c.neg \/ Len(md) = 0 \/ Len(cs) = 0
    IN  IF sameSign
        THEN IF LessL(md, cs) THEN LeqL(SubL(cs, md), unit)
             ELSE LeqL(SubL(md, cs), unit)
        ELSE LeqL(AddL(cs, md), unit)

\* the reassembly of entry k from the slots 2k-1 and 2k of a packed array, in
\* the order they were split
UnpackEntry(padded, k, little) ==
    LET first == padded[2 * k - 1]
        second == padded[2 * k]
        lo == IF little THEN first ELSE second
        hi == IF little THEN second ELSE first
    IN  Low(lo, HalfLimbs) \o Low(hi, HalfLimbs)

Unpack(padded, little) == [k \in 1..9 |-> UnpackEntry(padded, k, little)]

\* a slot holds a 32-bit value, zero-extended
ZeroExtended(slot) == \A i \in HalfLimbs+1..Len(slot) : slot[i] = 0

----------------------------------------------------------------------------
(* C1 as stated: for every coefficient c < 0 the stored word has bit 63    *)
(* set and its low 63 bits equal round(abs(c) * 2^32), round taken as the  *)
(* nearest integer.                                                        *)
C1_RoundedSignMagnitude ==
    Encoded =>
        \A i \in 1..9 :
            LET c == ctm_coeffs[i] IN
            DblLessZero(c) =>
                /\ Bit63(ctm[i])
                /\ c.kind = "fin"
                /\ Magnitude(ctm[i]) = ScaledRound(c)

(* C1 amended: for every coefficient c < 0 with abs(c) * 2^32 < 2^63 the   *)
(* stored word has bit 63 set and its low 63 bits equal                    *)
(* floor(abs(c) * 2^32) (truncation, not rounding), and it differs from    *)
(* the encoding of -c in bit 63 only.                                      *)
C1_TruncatedSignMagnitude ==
    Encoded =>
        \A i \in 1..9 :
            LET c == ctm_coeffs[i] IN
            (DblLessZero(c) /\ ScaledFits(c)) =>
                /\ Bit63(ctm[i])
                /\ Magnitude(ctm[i]) = ScaledFloor(c)
                /\ \A build \in CastBuilds :
                     LET pos == coeffs_to_ctm_entry(DblNeg(c), build)
                     IN  ~Bit63(pos) /\ ctm[i] = SetBit63(pos)

\* a negative coefficient whose scaled magnitude has a fraction of a half or
\* more has been encoded
C1_Witness ==
    /\ Encoded
    /\ \E i \in 1..9 :
         /\ DblLessZero(ctm_coeffs[i]) /\ ScaledFits(ctm_coeffs[i])
         /\ ScaledRound(ctm_coeffs[i]) # ScaledFloor(ctm_coeffs[i])
         /\ Len(ScaledFloor(ctm_coeffs[i])) # 0
         /\ Bit63(ctm[i])

(* C5: for every coefficient c with abs(c) * 2^32 < 2^63, the reference    *)
(* decode of the stored word is within 2^-32 of c.                         *)
C5_DecodeWithinUnit ==
    Encoded =>
        \A i \in 1..9 :
            ScaledFits(ctm_coeffs[i]) => DecodeWithinUnit(ctm_coeffs[i], ctm[i])

\* a negative and a positive coefficient, neither a whole number of units,
\* have been encoded, one of them with bit 31 of its magnitude set
C5_Witness ==
    /\ Encoded
    /\ \E i, j \in 1..9 :
         /\ DblLessZero(ctm_coeffs[i]) /\ ScaledFits(ctm_coeffs[i])
         /\ HasFraction(ctm_coeffs[i])
         /\ ctm[i][HalfLimbs] >= HalfBase
         /\ ~ctm_coeffs[j].neg /\ ScaledFits(ctm_coeffs[j])
         /\ HasFraction(ctm_coeffs[j])
         /\ ctm[j] # Word(<<>>)

(* C2: unpacking the padded array (pairs of slots reassembled in the order *)
(* they were split) gives back the 9 entries, and every slot holds a       *)
(* zero-extended 32-bit word.                                              *)
C2_UnpackPackIdentity ==
    Packed =>
        /\ \A j \in 1..18 : ZeroExtended(padded_ctm[j])
        /\ Unpack(padded_ctm, platform.little) = ctm

----------------------------------------------------------------------------
(* Reference definitions for the properties of a run of main *)

Called(name) == \E i \in DOMAIN calls : calls[i] = name
Count(name) == Cardinality({i \in DOMAIN calls : calls[i] = name})

\* both were called, each once, a before b
CalledBefore(a, b) ==
    /\ Count(a) = 1 /\ Count(b) = 1
    /\ \E i, j \in DOMAIN calls : i < j /\ calls[i] = a /\ calls[j] = b

\* main is at or past its label done
Cleanup == {"done", "close", "return", "exited"}

\* find_output_by_name has run on an acquired list
Resolved == res \in {"live", "freed"} /\ pc # "find"

\* no output of the server's list has exactly the requested name
NameAbsent == \A i \in DOMAIN outputs : outputs[i].name # output_name

\* one third as a double
OneThird == FltDiv3(Double, DblOfInt(1))

\* s is a decimal numeral: strtod converts some of it
RECURSIVE AllDigits(_, _)
AllDigits(s, i) == i > Len(s) \/ (s[i] \in DigitChars /\ AllDigits(s, i + 1))
IsNumeral(s) == s # NULL /\ Len(s) >= 1 /\ AllDigits(s, 1)

(* C3: XRRChangeOutputProperty is called only after XInternAtom gave an    *)
(* atom and XRRQueryOutputProperty found the property; with no atom        *)
(* set_output_blob returns BadAtom, with no property on the output BadName,*)
(* in both cases without XRRChangeOutputProperty or XSync.                 *)
C3_WriteOnlyAfterLookupAndQuery ==
    /\ Called("XRRChangeOutputProperty") =>
         /\ prop_atom # 0 /\ prop_info = "info"
         /\ CalledBefore("XInternAtom", "XRRQueryOutputProperty")
         /\ CalledBefore("XRRQueryOutputProperty", "XRRChangeOutputProperty")
    /\ (Called("XInternAtom") /\ prop_atom = 0) =>
         /\ blob_ret = BadAtom
         /\ ~Called("XRRChangeOutputProperty") /\ ~Called("XSync")
    /\ prop_info = "null" =>
         /\ blob_ret = BadName
         /\ ~Called("XRRChangeOutputProperty") /\ ~Called("XSync")

\* both refusals happen: this one is the property missing on the output
C3_Witness ==
    /\ pc = "exited" /\ prop_atom # 0 /\ prop_info = "null"
    /\ blob_ret = BadName /\ exit_status = BadName

\* the values set_output_blob returns
BlobCodes == {Success, BadAtom, BadName}

(* C4 as stated: Success is returned only after the write and a sync the   *)
(* server did not answer with an error; when the server answers with an    *)
(* error set_output_blob returns a failure code (TransmitFailed).          *)
C4_TransmitFailedReturned ==
    /\ blob_ret = Success =>
         /\ CalledBefore("XRRChangeOutputProperty", "XSync")
         /\ ~server.error
    /\ (server.error /\ Called("XSync")) => blob_ret \notin ({-1} \cup BlobCodes)

(* C4 amended: Success is returned only after the write and a sync the     *)
(* server did not answer with an error; when the server answers with an    *)
(* error set_output_blob does not return: the process ends inside XSync    *)
(* with exit status 1, and no code other than Success, BadAtom and BadName *)
(* is ever returned.                                                       *)
C4_SuccessOnlyAfterSync ==
    /\ blob_ret = Success =>
         /\ CalledBefore("XRRChangeOutputProperty", "XSync")
         /\ ~server.error
    /\ (server.error /\ Called("XSync")) =>
         pc = "exited" /\ exit_status = 1 /\ blob_ret = -1
    /\ blob_ret \in ({-1} \cup BlobCodes)

\* the server answered the write with an error and XSync was called
C4_Witness ==
    /\ server.error /\ server.written # <<>>
    /\ Called("XSync") /\ pc = "exited"

(* C6: the request handed to XRRChangeOutputProperty has format 32 and 18  *)
(* elements, whatever the size of long.                                    *)
C6_Format32Count18 ==
    server.written # <<>> =>
        /\ server.written.format = 32
        /\ server.written.nelements = 18
        /\ server.written.nelements = 2 * Len(ctm)
        /\ Len(server.written.data) = server.written.nelements

\* a write on a platform whose long has 8 bytes
C6_Witness ==
    /\ server.written # <<>>
    /\ platform.longBytes = 8
    /\ Len(server.written.data[1]) * LimbBits = 64

(* C7: when no listed output has exactly the requested name the resolver   *)
(* returns None and XInternAtom, XRRChangeOutputProperty and XSync are not *)
(* called in that run.                                                     *)
C7_AbsentNameNoTransmission ==
    (Resolved /\ NameAbsent) =>
        /\ output = 0
        /\ pc \in Cleanup
        /\ ~Called("XInternAtom")
        /\ ~Called("XRRQueryOutputProperty")
        /\ ~Called("XRRChangeOutputProperty")
        /\ ~Called("XSync")

\* the run ended without a match although an output differs from the
\* requested name in case only
C7_Witness ==
    /\ pc = "exited" /\ Resolved /\ NameAbsent /\ output = 0
    /\ \E i \in DOMAIN outputs : StrEq_nocase(outputs[i].name, output_name)
    /\ exit_status = 1

\* the exits C8 names: output not found, or set_output_blob returned
NamedExit == Resolved /\ (output = 0 \/ blob_ret \in BlobCodes)

(* C8: on each of these exits the resources were freed once and the        *)
(* display closed once, as the last two calls of the run.                  *)
C8_ReleasedOnceOnNamedExits ==
    /\ (pc = "exited" /\ NamedExit) =>
         /\ res = "freed" /\ dpy = "closed"
         /\ Count("XRRFreeScreenResources") = 1
         /\ Count("XCloseDisplay") = 1
         /\ Len(calls) >= 2
         /\ calls[Len(calls) - 1] = "XRRFreeScreenResources"
         /\ calls[Len(calls)] = "XCloseDisplay"
    /\ \A i \in DOMAIN calls :
         /\ calls[i] = "XRRFreeScreenResources" =>
              \A j \in DOMAIN calls : j > i => calls[j] = "XCloseDisplay"
         /\ calls[i] = "XCloseDisplay" => i = Len(calls)

\* the exit after no listed output had the requested name, resources freed
\* and display closed
C8_Witness ==
    /\ pc = "exited" /\ NamedExit /\ res = "freed" /\ dpy = "closed"
    /\ output = 0 /\ outputs # <<>>

(* C9 as stated: a saturation argument that is the numeral 0 is a valid    *)
(* request and gives the matrix whose 9 entries are 1/3.                   *)
C9_ZeroGivesThirds ==
    (pc \notin {"main", "parse"} /\ IsNumeral(ctm_opt) /\ DblIsZero(strtod(ctm_opt))
       /\ output_name # NULL /\ getopt_loop(argv, 1, NULL, NULL).exit = -1) =>
        /\ ctm_changed
        /\ Len(ctm_coeffs) = 9
        /\ \A i \in DOMAIN ctm_coeffs : ctm_coeffs[i] = OneThird

\* the saturation value was refused by parse_user_ctm
InvalidInput ==
    /\ pc = "exited" /\ output_name # NULL /\ ~ctm_changed
    /\ getopt_loop(argv, 1, NULL, NULL).exit = -1

(* C10: invalid input, output not found, BadAtom and BadName each end the  *)
(* run: no later step is taken, none is repeated, and main returns a       *)
(* non-zero value; main returns 0 after a CTM was requested only if the    *)
(* write and the sync were made.                                           *)
C10_ErrorsTerminalNonZero ==
    /\ InvalidInput => (exit_status % 256 # 0 /\ calls = <<>>)
    /\ (Resolved /\ output = 0) =>
         /\ pc \in Cleanup
         /\ ~Called("XInternAtom") /\ ~Called("XRRQueryOutputProperty")
         /\ ~Called("XRRChangeOutputProperty") /\ ~Called("XSync")
         /\ pc = "exited" => exit_status % 256 # 0
    /\ blob_ret = BadAtom =>
         /\ pc \in Cleanup
         /\ Count("XInternAtom") = 1 /\ ~Called("XRRQueryOutputProperty")
         /\ ~Called("XRRChangeOutputProperty") /\ ~Called("XSync")
         /\ pc = "exited" => exit_status % 256 # 0
    /\ blob_ret = BadName =>
         /\ pc \in Cleanup
         /\ Count("XInternAtom") = 1 /\ Count("XRRQueryOutputProperty") = 1
         /\ ~Called("XRRChangeOutputProperty") /\ ~Called("XSync")
         /\ pc = "exited" => exit_status % 256 # 0
    /\ (pc = "exited" /\ exit_status = 0 /\ ctm_changed) =>
         CalledBefore("XRRChangeOutputProperty", "XSync")

\* a run that ended on BadAtom with that exit status
C10_Witness ==
    /\ pc = "exited" /\ blob_ret = BadAtom /\ exit_status = BadAtom
    /\ prop_atom = 0

====
